---- MODULE Spec2Model ----
(***************************************************************************)
(* Model of diskcache/recipes.py: Averager, Lock, RLock, BoundedSemaphore, *)
(* throttle and barrier, each a small algorithm over one key of a shared   *)
(* transactional key-value store (diskcache.Cache).                        *)
(*                                                                         *)
(* The store itself is not part of recipes.py.  Its operations are modelled*)
(* from the store contract: every single operation is atomic, and while a  *)
(* caller is inside `with cache.transact():` no other caller writes or     *)
(* opens a transaction.  Eviction and expiry of entries belong to the      *)
(* store; here `expire` and `tag` are carried as attributes of the entry   *)
(* written.                                                                *)
(***************************************************************************)
EXTENDS Integers, Sequences, FiniteSets, TLC

(* ------------------------------ bounds --------------------------------- *)
\* number of concurrent callers (threads or processes) of Lock, RLock, barrier
NCallers == 3
\* the bound M of the BoundedSemaphore (its `value` argument)
SemValue == 2
\* the deepest nesting of RLock.acquire() one caller performs
MaxDepth == 2
\* how many Averager.add() calls are made in all
MaxAdds == 3
\* number of concurrent callers of a throttled function
NThrottled == 2
\* the last instant of the clock
MaxTime == 3

Callers == 1..NCallers
\* a semaphore of bound M is exercised by M + 1 callers
SemCallers == 1..(SemValue + 1)
AllCallers == Callers \cup SemCallers

\* Python's None as the owner of a never-acquired RLock (default=(None, 0))
NoneToken == 0
\* BoundedSemaphore.__init__'s default `value=1`, what barrier() constructs
DefaultValue == 1
\* no caller is inside a transaction
NoCaller == 0

\* Python's None, for stored values, errors, expire and tag
None == "None"
Expires == {None, "E"}
Tags == {None, "T"}
\* the (expire, tag) an object is constructed with
AllOptions == Expires \X Tags
\* the defaults, or both given
Options == {<<None, None>>, <<"E", "T">>}
Key == "key"

VARIABLES
    cache,      \* the store: a function from the keys present to their entries
    txn,        \* the caller inside `with cache.transact():`, or NoCaller
    self,       \* self[c]: the recipe object caller c uses (its attributes)
    pc,         \* pc[c]: where caller c is in the code
    local,      \* local[c]: what c read inside its open transaction
    holds,      \* holds[c]: acquire() calls returned to c minus release() calls returned
    outcome,    \* outcome[c]: the error c's last call raised, or None
    exc,        \* exc[c]: the error raised by the body of c's with-block, or None
    result,     \* result[c]: what c's last Averager.get() or pop() returned
    clock,      \* what time_func() returns
    hist        \* history kept for the properties (values added, calls let through)

vars == <<cache, txn, self, pc, local, holds, outcome, exc, result, clock, hist>>

(* --------------------------- the store --------------------------------- *)
Entry(value, expire, tag) == [value |-> value, expire |-> expire, tag |-> tag]

\* cache.get(key, default)
Get(store, key, default) ==
    IF key \in DOMAIN store THEN store[key].value ELSE default

\* cache.set(key, value, expire, tag): unconditional upsert
Set(store, key, value, expire, tag) ==
    [k \in DOMAIN store \cup {key} |->
        IF k = key THEN Entry(value, expire, tag) ELSE store[k]]

\* cache.add(key, value, expire, tag): insert only if absent, tell whether it did
Add(store, key, value, expire, tag) ==
    IF key \in DOMAIN store
    THEN [cache |-> store, ret |-> FALSE]
    ELSE [cache |-> Set(store, key, value, expire, tag), ret |-> TRUE]

\* cache.delete(key): remove the key, tell whether it existed
Delete(store, key) ==
    [cache |-> [k \in DOMAIN store \ {key} |-> store[k]],
     ret |-> key \in DOMAIN store]

\* cache.pop(key, default): atomic get-then-delete
Pop(store, key, default) ==
    [cache |-> [k \in DOMAIN store \ {key} |-> store[k]],
     ret |-> Get(store, key, default)]

EmptyCache == [k \in {} |-> Entry(None, None, None)]

\* a single write (add, set, delete, pop) outside a transaction waits, under
\* retry=True, until no transaction is open
CanWrite == txn = NoCaller

TransactNoExclusion(c) == txn' = txn

\* `with self._cache.transact():` entered by caller c
Transact(c) == txn = NoCaller /\ txn' = c

\* the with-block of the transaction is left: commit (or roll back on an error)
Commit(c) == txn' = NoCaller

(* ------------------------------ helpers -------------------------------- *)
RECURSIVE SumOver(_, _)
SumOver(S, f) ==
    IF S = {} THEN 0
    ELSE LET x == CHOOSE y \in S : TRUE IN f[x] + SumOver(S \ {x}, f)

Idle == [c \in AllCallers |-> "idle"]
NoLocals == [c \in AllCallers |-> None]
NoHolds == [c \in AllCallers |-> 0]
NoErrors == [c \in AllCallers |-> None]
NoResults == [c \in AllCallers |-> <<0, 1>>]
NoHistory == [added |-> <<0, 0>>]

(* ------------------------------- Lock ---------------------------------- *)
\* Lock(cache, key, expire, tag)
LockObject(key, expire, tag) ==
    [cls |-> "Lock", key |-> key, expire |-> expire, tag |-> tag, value |-> 0]

LockAcquireOnceNoCheck(store, obj) ==
    LET added == Add(store, obj.key, None, obj.expire, obj.tag)
    IN  [cache |-> added.cache, done |-> TRUE]

\* one pass of the `while True` loop of Lock.acquire: done = the loop breaks
LockAcquireOnce(store, obj) ==
    LET added == Add(store, obj.key, None, obj.expire, obj.tag)
    IN  [cache |-> added.cache, done |-> added.ret]

LockReleaseOpKeepsKey(store, obj) ==
    [cache |-> store, exc |-> None]

\* Lock.release: delete the key, whoever holds it; never raises
LockReleaseOp(store, obj) ==
    [cache |-> Delete(store, obj.key).cache, exc |-> None]

\* a caller that does not hold the lock calls lock.acquire()
LockCall(c) ==
    /\ pc[c] = "idle"
    /\ holds[c] = 0
    /\ pc' = [pc EXCEPT ![c] = "acquire"]
    /\ UNCHANGED <<cache, txn, self, local, holds, outcome, exc, result, clock, hist>>

\* one pass of the loop of lock.acquire(): add(), then return or go to sleep
LockAcquire(c) ==
    /\ pc[c] = "acquire"
    /\ CanWrite
    /\ LET r == LockAcquireOnce(cache, self[c])
       IN  /\ cache' = r.cache
           /\ IF r.done
              THEN /\ pc' = [pc EXCEPT ![c] = "idle"]
                   /\ holds' = [holds EXCEPT ![c] = @ + 1]
                   /\ outcome' = [outcome EXCEPT ![c] = None]
              ELSE /\ pc' = [pc EXCEPT ![c] = "sleep"]
                   /\ UNCHANGED <<holds, outcome>>
    /\ UNCHANGED <<txn, self, local, exc, result, clock, hist>>

\* time.sleep(0.001) returns, the loop goes round
LockWake(c) ==
    /\ pc[c] = "sleep"
    /\ pc' = [pc EXCEPT ![c] = "acquire"]
    /\ UNCHANGED <<cache, txn, self, local, holds, outcome, exc, result, clock, hist>>

\* the holder calls lock.release()
LockRelease(c) ==
    /\ pc[c] = "idle"
    /\ holds[c] > 0
    /\ CanWrite
    /\ LET r == LockReleaseOp(cache, self[c])
       IN  /\ cache' = r.cache
           /\ holds' = [holds EXCEPT ![c] = @ - 1]
           /\ outcome' = [outcome EXCEPT ![c] = r.exc]
    /\ UNCHANGED <<txn, self, pc, local, exc, result, clock, hist>>

InitLock ==
    /\ cache = EmptyCache
    /\ txn = NoCaller
    /\ \E o \in AllOptions :
          self = [c \in AllCallers |-> LockObject(Key, o[1], o[2])]
    /\ pc = Idle
    /\ local = NoLocals
    /\ holds = NoHolds
    /\ outcome = NoErrors
    /\ exc = NoErrors
    /\ result = NoResults
    /\ clock = 0
    /\ hist = NoHistory

NextLock ==
    \E c \in Callers :
        \/ LockCall(c)
        \/ LockAcquire(c)
        \/ LockWake(c)
        \/ LockRelease(c)

SpecLock == InitLock /\ [][NextLock]_vars

Holders == {c \in AllCallers : holds[c] > 0}

\* C1: at most one caller is between its acquire() and its release(), and the
\* key exists in the store exactly when some caller holds the lock.
LockMutualExclusion ==
    /\ Cardinality(Holders) <= 1
    /\ (Key \in DOMAIN cache) <=> (Holders # {})

\* one caller holds the lock while the two others have tried and sleep
LockContended ==
    /\ Cardinality(Holders) = 1
    /\ Cardinality({c \in Callers : pc[c] = "sleep"}) >= 2

\* a caller that does not hold the lock calls lock.release()
LockReleaseUnheld(c) ==
    /\ pc[c] = "idle"
    /\ holds[c] = 0
    /\ CanWrite
    /\ LET r == LockReleaseOp(cache, self[c])
       IN  /\ cache' = r.cache
           /\ outcome' = [outcome EXCEPT ![c] = r.exc]
    /\ UNCHANGED <<txn, self, pc, local, holds, exc, result, clock, hist>>

\* callers that release whether they hold the lock or not
NextLockMisuse ==
    \E c \in Callers :
        \/ LockCall(c)
        \/ LockAcquire(c)
        \/ LockWake(c)
        \/ LockRelease(c)
        \/ LockReleaseUnheld(c)

SpecLockMisuse == InitLock /\ [][NextLockMisuse]_vars

\* C13: a release() by any caller in any state ends without error and leaves
\* the key absent, and with the key absent the next pass of any caller's
\* acquire() succeeds, whoever still counts itself as holder.
LockReleaseUnverified ==
    /\ [][\A c \in Callers : LockRelease(c) \/ LockReleaseUnheld(c) =>
            /\ outcome'[c] = None
            /\ Key \notin DOMAIN cache'
            /\ \A d \in Callers : LockAcquireOnce(cache', self[d]).done]_vars
    /\ [](\A c \in Callers :
            LockAcquireOnce(cache, self[c]).done <=> Key \notin DOMAIN cache)

\* a non-holder released the lock another caller held, and a second caller
\* has acquired it since: two callers are between acquire() and release()
LockHeldTwice ==
    \E c, d \in Callers :
        /\ c # d
        /\ holds[c] = 1 /\ holds[d] = 1
        /\ pc[c] = "idle" /\ pc[d] = "idle"
        /\ Key \in DOMAIN cache

\* every caller's pass of the loop, and its waking up, happen if they stay
\* possible, and every holder goes on to call release()
LockFairness ==
    \A c \in Callers : /\ WF_vars(LockAcquire(c))
                        /\ WF_vars(LockWake(c))
                        /\ WF_vars(LockRelease(c))

SpecLockFair == InitLock /\ [][NextLock]_vars /\ LockFairness

\* the callers inside acquire()
Waiting == {c \in Callers : pc[c] \in {"acquire", "sleep"}}

\* C20: a pass of acquire() that finds the key present changes nothing and
\* goes to sleep, acquire() returns only from a pass that found the key absent
\* and added it; and while some caller waits, the holder's release() is
\* followed by some caller's acquisition.
LockProgress ==
    /\ [][\A c \in Callers : LockAcquire(c) =>
            IF Key \in DOMAIN cache
            THEN /\ cache' = cache
                 /\ holds' = holds
                 /\ pc'[c] = "sleep"
            ELSE /\ Key \in DOMAIN cache'
                 /\ holds'[c] = holds[c] + 1]_vars
    /\ [][\A c \in Callers : holds'[c] > holds[c] =>
            LockAcquire(c) /\ Key \notin DOMAIN cache]_vars
    /\ \A d \in Callers : (Waiting # {} /\ holds[d] > 0) ~> (holds[d] = 0)
    /\ (Waiting # {} /\ Holders = {}) ~> (Holders # {})

\* the lock has been released and a caller that found it held still sleeps
LockFreeWhileWaiting ==
    /\ Holders = {}
    /\ Key \notin DOMAIN cache
    /\ \E c \in Callers : pc[c] = "sleep"
    /\ \E c \in Callers : outcome[c] = None /\ pc[c] = "idle"

\* the stronger property that every waiter acquires in the end, which does
\* not hold: a waiter's every pass may find the lock taken by another caller
LockEveryWaiterAcquires ==
    \A c \in Callers : (c \in Waiting) ~> (holds[c] > 0)

(* ------------------------------- RLock --------------------------------- *)
\* the owner token '{}-{}'.format(pid, tid) of the thread `creator`
Token(creator) == creator
Tokens == {Token(c) : c \in Callers}

\* RLock(cache, key, expire, tag), constructed by the thread `creator`:
\* __init__ stores that thread's token in self._value
RLockObject(key, expire, tag, creator) ==
    [cls |-> "RLock", key |-> key, expire |-> expire, tag |-> tag,
     value |-> Token(creator)]

\* who constructed the object each caller uses: the caller itself, but for at
\* most one caller, who uses the object caller 1 constructed
Creators ==
    {[c \in AllCallers |-> IF c = d THEN 1 ELSE c] : d \in AllCallers}

\* value, count = self._cache.get(self._key, default=(None, 0))
RLockRead(store, obj) == Get(store, obj.key, <<NoneToken, 0>>)

RLockAcquireWithNoCheck(store, obj, got) ==
    [cache |-> Set(store, obj.key, <<obj.value, got[2] + 1>>, obj.expire, obj.tag),
     done |-> TRUE]

\* the rest of the transaction of RLock.acquire, having read `got`
RLockAcquireWith(store, obj, got) ==
    LET value == got[1]
        count == got[2]
    IN  IF obj.value = value \/ count = 0
        THEN [cache |-> Set(store, obj.key, <<obj.value, count + 1>>,
                            obj.expire, obj.tag),
              done |-> TRUE]
        ELSE [cache |-> store, done |-> FALSE]

\* one pass of the `while True` loop of RLock.acquire: one transaction
RLockAcquireOnce(store, obj) == RLockAcquireWith(store, obj, RLockRead(store, obj))

RLockReleaseWithToZero(store, obj, got) ==
    LET value == got[1]
        count == got[2]
        is_owned == obj.value = value /\ count > 0
    IN  IF ~is_owned
        THEN [cache |-> store, exc |-> "AssertionError"]
        ELSE [cache |-> Set(store, obj.key, <<value, 0>>, obj.expire, obj.tag),
              exc |-> None]

RLockReleaseWithAnyOwner(store, obj, got) ==
    LET value == got[1]
        count == got[2]
        is_owned == count > 0
    IN  IF ~is_owned
        THEN [cache |-> store, exc |-> "AssertionError"]
        ELSE [cache |-> Set(store, obj.key, <<value, count - 1>>,
                            obj.expire, obj.tag),
              exc |-> None]

\* the rest of the transaction of RLock.release, having read `got`: the
\* assertion, then the decrement
RLockReleaseWith(store, obj, got) ==
    LET value == got[1]
        count == got[2]
        is_owned == obj.value = value /\ count > 0
    IN  IF ~is_owned
        THEN [cache |-> store, exc |-> "AssertionError"]
        ELSE [cache |-> Set(store, obj.key, <<value, count - 1>>,
                            obj.expire, obj.tag),
              exc |-> None]

\* RLock.release: one transaction
RLockReleaseOp(store, obj) == RLockReleaseWith(store, obj, RLockRead(store, obj))

\* caller c starts a pass of the loop of rlock.acquire() (the first, on calling
\* acquire(), or the next when time.sleep(0.001) has returned): it opens the
\* transaction and reads the key
RLockAcquire(c) ==
    /\ \/ pc[c] = "idle" /\ holds[c] < MaxDepth
       \/ pc[c] = "sleep"
    /\ Transact(c)
    /\ local' = [local EXCEPT ![c] = RLockRead(cache, self[c])]
    /\ pc' = [pc EXCEPT ![c] = "acquire"]
    /\ UNCHANGED <<cache, self, holds, outcome, exc, result, clock, hist>>

\* the pass ends: write and return, or leave the transaction and sleep
RLockAcquireCommit(c) ==
    /\ pc[c] = "acquire"
    /\ LET r == RLockAcquireWith(cache, self[c], local[c])
       IN  /\ cache' = r.cache
           /\ IF r.done
              THEN /\ pc' = [pc EXCEPT ![c] = "idle"]
                   /\ holds' = [holds EXCEPT ![c] = @ + 1]
                   /\ outcome' = [outcome EXCEPT ![c] = None]
              ELSE /\ pc' = [pc EXCEPT ![c] = "sleep"]
                   /\ UNCHANGED <<holds, outcome>>
    /\ Commit(c)
    /\ local' = [local EXCEPT ![c] = None]
    /\ UNCHANGED <<self, exc, result, clock, hist>>

\* any caller calls rlock.release(), whether it holds the lock or not
RLockRelease(c) ==
    /\ pc[c] = "idle"
    /\ Transact(c)
    /\ local' = [local EXCEPT ![c] = RLockRead(cache, self[c])]
    /\ pc' = [pc EXCEPT ![c] = "release"]
    /\ UNCHANGED <<cache, self, holds, outcome, exc, result, clock, hist>>

RLockReleaseCommit(c) ==
    /\ pc[c] = "release"
    /\ LET r == RLockReleaseWith(cache, self[c], local[c])
       IN  /\ cache' = r.cache
           /\ holds' = [holds EXCEPT ![c] = IF r.exc = None THEN @ - 1 ELSE @]
           /\ outcome' = [outcome EXCEPT ![c] = r.exc]
    /\ Commit(c)
    /\ pc' = [pc EXCEPT ![c] = "idle"]
    /\ local' = [local EXCEPT ![c] = None]
    /\ UNCHANGED <<self, exc, result, clock, hist>>

InitRLock ==
    /\ cache = EmptyCache
    /\ txn = NoCaller
    /\ \E o \in Options, f \in Creators :
          self = [c \in AllCallers |-> RLockObject(Key, o[1], o[2], f[c])]
    /\ pc = Idle
    /\ local = NoLocals
    /\ holds = NoHolds
    /\ outcome = NoErrors
    /\ exc = NoErrors
    /\ result = NoResults
    /\ clock = 0
    /\ hist = NoHistory

NextRLock ==
    \E c \in Callers :
        \/ RLockAcquire(c)
        \/ RLockAcquireCommit(c)
        \/ RLockRelease(c)
        \/ RLockReleaseCommit(c)

SpecRLock == InitRLock /\ [][NextRLock]_vars

\* the stored (owner_token, depth)
Stored == Get(cache, Key, <<NoneToken, 0>>)
\* acquire() calls returned minus release() calls returned, for one owner token
OwnerDepth(t) == SumOver({c \in Callers : self[c].value = t}, holds)
OtherOwnerHolds(c) ==
    \E t \in Tokens : t # self[c].value /\ OwnerDepth(t) > 0

\* C2: while an owner has K acquires and j < K releases behind it, the store
\* holds (that owner, K - j); and a pass of acquire() by a caller succeeds
\* exactly when no other owner has acquires left to release.
RLockReentrancyDepth ==
    /\ \A t \in Tokens : OwnerDepth(t) > 0 => Stored = <<t, OwnerDepth(t)>>
    /\ \A c \in Callers :
          RLockAcquireOnce(cache, self[c]).done <=> ~OtherOwnerHolds(c)

\* one owner has acquired twice and not released, and another owner has
\* tried and sleeps
RLockHeldTwice ==
    \E c, d \in Callers :
        /\ self[c].value # self[d].value
        /\ holds[c] >= 2
        /\ Stored = <<self[c].value, holds[c]>>
        /\ pc[d] = "sleep"

\* C3: the depth is never negative; while it is positive exactly one owner
\* holds the lock, the one stored; and an acquire() returns only from a pass
\* that found depth 0 or its own token in the store and stored
\* (its token, depth + 1).
RLockOwnerExclusion ==
    /\ [](/\ Stored[2] >= 0
          /\ \A t \in Tokens : OwnerDepth(t) >= 0
          /\ Stored[2] > 0 => {t \in Tokens : OwnerDepth(t) > 0} = {Stored[1]})
    /\ [][\A c \in Callers : holds'[c] > holds[c] =>
            /\ Stored[2] = 0 \/ Stored[1] = self[c].value
            /\ Stored' = <<self[c].value, Stored[2] + 1>>]_vars

\* two owners wait on the lock a third owner holds
RLockContended ==
    \E c \in Callers :
        /\ holds[c] > 0
        /\ Cardinality({d \in Callers : pc[d] = "sleep"
                                        /\ self[d].value # self[c].value}) >= 2

\* C14: while a thread holds the lock (it has acquired and not released, the
\* depth is positive), no call of acquire() or release() by another thread
\* succeeds, whichever RLock object that thread calls it on.
RLockOwnerIsExecutor ==
    [][\A c \in Callers :
          /\ RLockAcquireCommit(c) \/ RLockReleaseCommit(c)
          /\ Stored[2] > 0
          /\ \E d \in Callers \ {c} : holds[d] > 0
          => holds'[c] = holds[c]]_vars

\* C11: a release() by a caller whose token is not the stored one, or that
\* finds depth 0 (the key absent included), ends with the error 'cannot
\* release un-acquired lock' and leaves the store as it was; any other
\* release() ends without error and stores (owner token, depth - 1).
RLockReleaseWithoutOwnership ==
    [][\A c \in Callers : RLockReleaseCommit(c) =>
          IF Stored[1] # self[c].value \/ Stored[2] = 0
          THEN /\ outcome'[c] = "AssertionError"
               /\ cache' = cache
          ELSE /\ outcome'[c] = None
               /\ Stored' = <<Stored[1], Stored[2] - 1>>]_vars

\* a release() has failed for a caller that holds nothing, while another owner
\* holds the lock at depth 2, which the failed release() left in place
RLockForeignReleaseFailed ==
    \E c, d \in Callers :
        /\ self[c].value # self[d].value
        /\ pc[c] = "idle"
        /\ outcome[c] = "AssertionError"
        /\ holds[c] = 0
        /\ holds[d] = 2
        /\ Stored = <<self[d].value, 2>>

(* -------------------------- BoundedSemaphore ---------------------------- *)
\* BoundedSemaphore(cache, key, value, expire, tag)
SemObject(key, value, expire, tag) ==
    [cls |-> "BoundedSemaphore", key |-> key, expire |-> expire, tag |-> tag,
     value |-> value]

\* value = self._cache.get(self._key, default=self._value)
SemRead(store, obj) == Get(store, obj.key, obj.value)

SemAcquireWithNoCheck(store, obj, value) ==
    [cache |-> Set(store, obj.key, value - 1, obj.expire, obj.tag),
     done |-> TRUE]

\* the rest of the transaction of BoundedSemaphore.acquire, having read `value`
SemAcquireWith(store, obj, value) ==
    IF value > 0
    THEN [cache |-> Set(store, obj.key, value - 1, obj.expire, obj.tag),
          done |-> TRUE]
    ELSE [cache |-> store, done |-> FALSE]

\* one pass of the `while True` loop of BoundedSemaphore.acquire: one transaction
SemAcquireOnce(store, obj) == SemAcquireWith(store, obj, SemRead(store, obj))

SemReleaseWithNoAssert(store, obj, value) ==
    [cache |-> Set(store, obj.key, value + 1, obj.expire, obj.tag),
     exc |-> None]

SemReleaseWithAtMax(store, obj, value) ==
    IF ~(obj.value >= value)
    THEN [cache |-> store, exc |-> "AssertionError"]
    ELSE [cache |-> Set(store, obj.key, value + 1, obj.expire, obj.tag),
          exc |-> None]

\* the rest of the transaction of BoundedSemaphore.release, having read
\* `value`: the assertion, then the increment
SemReleaseWith(store, obj, value) ==
    IF ~(obj.value > value)
    THEN [cache |-> store, exc |-> "AssertionError"]
    ELSE [cache |-> Set(store, obj.key, value + 1, obj.expire, obj.tag),
          exc |-> None]

\* BoundedSemaphore.release: one transaction
SemReleaseOp(store, obj) == SemReleaseWith(store, obj, SemRead(store, obj))

\* caller c starts a pass of the loop of semaphore.acquire() (the first, on
\* calling acquire(), or the next when time.sleep(0.001) has returned): it
\* opens the transaction and reads the key
SemAcquire(c) ==
    /\ \/ pc[c] = "idle" /\ holds[c] < SemValue
       \/ pc[c] = "sleep"
    /\ Transact(c)
    /\ local' = [local EXCEPT ![c] = SemRead(cache, self[c])]
    /\ pc' = [pc EXCEPT ![c] = "acquire"]
    /\ UNCHANGED <<cache, self, holds, outcome, exc, result, clock, hist>>

\* the pass ends: write and return, or leave the transaction and sleep
SemAcquireCommit(c) ==
    /\ pc[c] = "acquire"
    /\ LET r == SemAcquireWith(cache, self[c], local[c])
       IN  /\ cache' = r.cache
           /\ IF r.done
              THEN /\ pc' = [pc EXCEPT ![c] = "idle"]
                   /\ holds' = [holds EXCEPT ![c] = @ + 1]
                   /\ outcome' = [outcome EXCEPT ![c] = None]
              ELSE /\ pc' = [pc EXCEPT ![c] = "sleep"]
                   /\ UNCHANGED <<holds, outcome>>
    /\ Commit(c)
    /\ local' = [local EXCEPT ![c] = None]
    /\ UNCHANGED <<self, exc, result, clock, hist>>

\* any caller calls semaphore.release(), whether it has acquired or not
SemRelease(c) ==
    /\ pc[c] = "idle"
    /\ Transact(c)
    /\ local' = [local EXCEPT ![c] = SemRead(cache, self[c])]
    /\ pc' = [pc EXCEPT ![c] = "release"]
    /\ UNCHANGED <<cache, self, holds, outcome, exc, result, clock, hist>>

SemReleaseCommit(c) ==
    /\ pc[c] = "release"
    /\ LET r == SemReleaseWith(cache, self[c], local[c])
       IN  /\ cache' = r.cache
           /\ holds' = [holds EXCEPT ![c] = IF r.exc = None THEN @ - 1 ELSE @]
           /\ outcome' = [outcome EXCEPT ![c] = r.exc]
    /\ Commit(c)
    /\ pc' = [pc EXCEPT ![c] = "idle"]
    /\ local' = [local EXCEPT ![c] = None]
    /\ UNCHANGED <<self, exc, result, clock, hist>>

InitSemaphore ==
    /\ cache = EmptyCache
    /\ txn = NoCaller
    /\ \E o \in Options :
          self = [c \in AllCallers |-> SemObject(Key, SemValue, o[1], o[2])]
    /\ pc = Idle
    /\ local = NoLocals
    /\ holds = NoHolds
    /\ outcome = NoErrors
    /\ exc = NoErrors
    /\ result = NoResults
    /\ clock = 0
    /\ hist = NoHistory

NextSemaphore ==
    \E c \in SemCallers :
        \/ SemAcquire(c)
        \/ SemAcquireCommit(c)
        \/ SemRelease(c)
        \/ SemReleaseCommit(c)

SpecSemaphore == InitSemaphore /\ [][NextSemaphore]_vars

\* the value stored at the key, taken as the bound when the key is absent
Available == Get(cache, Key, SemValue)
\* acquire() calls returned and not yet matched by a returned release()
Outstanding == SumOver(SemCallers, holds)

SemBlocking ==
    /\ [](\A c \in SemCallers :
            SemAcquireOnce(cache, self[c]).done <=> Outstanding < SemValue)
    /\ [][\A c \in SemCallers :
            /\ Outstanding = SemValue => holds'[c] <= holds[c]
            /\ (pc[c] = "acquire" /\ pc'[c] = "sleep") => Outstanding = SemValue]_vars

\* M callers hold one unit each and the caller left over has tried and sleeps
SemBlocked ==
    /\ \E c \in SemCallers :
          /\ pc[c] = "sleep"
          /\ \A d \in SemCallers \ {c} : holds[d] = 1 /\ pc[d] = "idle"
    /\ Available = 0

\* C12 as stated: a release() by a caller that holds no acquisition of its own
\* ends with the error 'cannot release un-acquired semaphore' and leaves the
\* stored value as it was.
SemReleaseByNonHolderFails ==
    [][\A c \in SemCallers : SemReleaseCommit(c) /\ holds[c] <= 0 =>
          /\ outcome'[c] = "AssertionError"
          /\ cache' = cache]_vars

\* C12 as amended: a release() that finds available = max_value (the key
\* absent included) ends with the error and leaves the store as it was; any
\* other release(), whoever calls it, ends without error and stores
\* available + 1.
SemReleaseWithoutAcquisition ==
    [][\A c \in SemCallers : SemReleaseCommit(c) =>
          IF Available = SemValue
          THEN /\ outcome'[c] = "AssertionError"
               /\ cache' = cache
          ELSE /\ outcome'[c] = None
               /\ Available' = Available + 1]_vars

\* a caller that never acquired has released with success what another caller
\* acquired, and a further release() has failed on the full semaphore
SemForeignReleaseSucceeded ==
    \E c, d, e \in SemCallers :
        /\ holds[c] = -1 /\ outcome[c] = None
        /\ holds[d] >= 1
        /\ outcome[e] = "AssertionError"
        /\ Available = SemValue
        /\ \A x \in SemCallers : pc[x] = "idle"

(* --------------------- with-blocks and barrier -------------------------- *)
\* lock = lock_factory(cache, key, expire=expire, tag=tag), run by `creator`
LockFactories == {"Lock", "RLock", "BoundedSemaphore"}
MakeLock(lock_factory, key, expire, tag, creator) ==
    CASE lock_factory = "Lock" -> LockObject(key, expire, tag)
      [] lock_factory = "RLock" -> RLockObject(key, expire, tag, creator)
      [] lock_factory = "BoundedSemaphore" ->
            SemObject(key, DefaultValue, expire, tag)

\* which thread ran the decorator for the wrapper caller c calls: callers 1..k
\* are threads of one process and share the wrapper thread 1 decorated; each
\* other caller is the main thread of a process that decorated for itself
Decorators ==
    {[c \in AllCallers |-> IF c <= k THEN 1 ELSE c] : k \in Callers}

\* Lock.acquire and Lock.release are single store operations; RLock and
\* BoundedSemaphore open a transaction
UsesTransact(obj) == obj.cls # "Lock"

\* what lock.acquire() / lock.release() read first inside their transaction
Read(store, obj) ==
    CASE obj.cls = "Lock" -> None
      [] obj.cls = "RLock" -> RLockRead(store, obj)
      [] obj.cls = "BoundedSemaphore" -> SemRead(store, obj)

\* self.acquire() as __enter__ calls it: one pass of its loop, having read `got`
AcquireWith(store, obj, got) ==
    CASE obj.cls = "Lock" -> LockAcquireOnce(store, obj)
      [] obj.cls = "RLock" -> RLockAcquireWith(store, obj, got)
      [] obj.cls = "BoundedSemaphore" -> SemAcquireWith(store, obj, got)

AcquireOnce(store, obj) == AcquireWith(store, obj, Read(store, obj))

\* self.release() as __exit__ calls it, having read `got`
ReleaseWith(store, obj, got) ==
    CASE obj.cls = "Lock" -> LockReleaseOp(store, obj)
      [] obj.cls = "RLock" -> RLockReleaseWith(store, obj, got)
      [] obj.cls = "BoundedSemaphore" -> SemReleaseWith(store, obj, got)

ExitReleasesOnSuccess(exc_info) == exc_info = None

\* __exit__(self, *exc_info) calls self.release() whatever exc_info is
ExitReleases(exc_info) == TRUE

\* __exit__ returns None: the with statement does not suppress the error
ExitSuppresses(exc_info) == FALSE

\* what the wrapper's caller gets: the error release() raised in __exit__, else
\* the error of the body unless __exit__ suppressed it, else a normal return
WrapperOutcome(release_exc, exc_info) ==
    IF release_exc # None THEN release_exc
    ELSE IF exc_info # None /\ ~ExitSuppresses(exc_info) THEN exc_info
    ELSE None

\* caller c calls the wrapper: `with lock:` runs lock.__enter__(), one pass of
\* the loop of acquire() at a time.  A Lock does its add(); an RLock or a
\* BoundedSemaphore opens its transaction and reads the key.
WrapperEnter(c) ==
    /\ \/ pc[c] = "idle"
       \/ pc[c] = "sleep"
    /\ IF UsesTransact(self[c])
       THEN /\ Transact(c)
            /\ local' = [local EXCEPT ![c] = Read(cache, self[c])]
            /\ pc' = [pc EXCEPT ![c] = "enter"]
            /\ UNCHANGED <<cache, holds>>
       ELSE /\ CanWrite
            /\ LET r == AcquireWith(cache, self[c], None)
               IN  /\ cache' = r.cache
                   /\ pc' = [pc EXCEPT ![c] = IF r.done THEN "body" ELSE "sleep"]
                   /\ holds' = [holds EXCEPT ![c] = IF r.done THEN @ + 1 ELSE @]
            /\ UNCHANGED <<txn, local>>
    /\ UNCHANGED <<self, outcome, exc, result, clock, hist>>

\* the transaction of the pass ends: the body is entered, or the caller sleeps
WrapperEnterCommit(c) ==
    /\ pc[c] = "enter"
    /\ LET r == AcquireWith(cache, self[c], local[c])
       IN  /\ cache' = r.cache
           /\ pc' = [pc EXCEPT ![c] = IF r.done THEN "body" ELSE "sleep"]
           /\ holds' = [holds EXCEPT ![c] = IF r.done THEN @ + 1 ELSE @]
    /\ Commit(c)
    /\ local' = [local EXCEPT ![c] = None]
    /\ UNCHANGED <<self, outcome, exc, result, clock, hist>>

\* func(*args, **kwargs) returns
FuncReturn(c) ==
    /\ pc[c] = "body"
    /\ pc' = [pc EXCEPT ![c] = "exit"]
    /\ exc' = [exc EXCEPT ![c] = None]
    /\ UNCHANGED <<cache, txn, self, local, holds, outcome, result, clock, hist>>

\* func(*args, **kwargs) raises
FuncRaise(c) ==
    /\ pc[c] = "body"
    /\ pc' = [pc EXCEPT ![c] = "exit"]
    /\ exc' = [exc EXCEPT ![c] = "Error"]
    /\ UNCHANGED <<cache, txn, self, local, holds, outcome, result, clock, hist>>

\* the with statement leaves the block through lock.__exit__(*exc_info), which
\* calls release(): a Lock deletes the key and the wrapper is left; an RLock or
\* a BoundedSemaphore opens its transaction and reads the key
WrapperExit(c) ==
    /\ pc[c] = "exit"
    /\ IF ~ExitReleases(exc[c])
       THEN /\ pc' = [pc EXCEPT ![c] = "idle"]
            /\ outcome' = [outcome EXCEPT ![c] = WrapperOutcome(None, exc[c])]
            /\ exc' = [exc EXCEPT ![c] = None]
            /\ UNCHANGED <<cache, txn, local, holds>>
       ELSE IF UsesTransact(self[c])
       THEN /\ Transact(c)
            /\ local' = [local EXCEPT ![c] = Read(cache, self[c])]
            /\ pc' = [pc EXCEPT ![c] = "exiting"]
            /\ UNCHANGED <<cache, holds, outcome, exc>>
       ELSE /\ CanWrite
            /\ LET r == ReleaseWith(cache, self[c], None)
               IN  /\ cache' = r.cache
                   /\ holds' = [holds EXCEPT ![c] = IF r.exc = None THEN @ - 1 ELSE @]
                   /\ outcome' = [outcome EXCEPT ![c] = WrapperOutcome(r.exc, exc[c])]
            /\ pc' = [pc EXCEPT ![c] = "idle"]
            /\ exc' = [exc EXCEPT ![c] = None]
            /\ UNCHANGED <<txn, local>>
    /\ UNCHANGED <<self, result, clock, hist>>

\* the transaction of release() ends and the wrapper is left
WrapperExitCommit(c) ==
    /\ pc[c] = "exiting"
    /\ LET r == ReleaseWith(cache, self[c], local[c])
       IN  /\ cache' = r.cache
           /\ holds' = [holds EXCEPT ![c] = IF r.exc = None THEN @ - 1 ELSE @]
           /\ outcome' = [outcome EXCEPT ![c] = WrapperOutcome(r.exc, exc[c])]
    /\ Commit(c)
    /\ pc' = [pc EXCEPT ![c] = "idle"]
    /\ local' = [local EXCEPT ![c] = None]
    /\ exc' = [exc EXCEPT ![c] = None]
    /\ UNCHANGED <<self, result, clock, hist>>

InitBarrier ==
    /\ cache = EmptyCache
    /\ txn = NoCaller
    /\ \E lock_factory \in LockFactories, o \in Options, f \in Decorators :
          /\ lock_factory # "RLock" => f = [c \in AllCallers |-> 1]
          /\ self = [c \in AllCallers |->
                        MakeLock(lock_factory, Key, o[1], o[2], f[c])]
    /\ pc = Idle
    /\ local = NoLocals
    /\ holds = NoHolds
    /\ outcome = NoErrors
    /\ exc = NoErrors
    /\ result = NoResults
    /\ clock = 0
    /\ hist = NoHistory

NextBarrier ==
    \E c \in Callers :
        \/ WrapperEnter(c)
        \/ WrapperEnterCommit(c)
        \/ FuncReturn(c)
        \/ FuncRaise(c)
        \/ WrapperExit(c)
        \/ WrapperExitCommit(c)

SpecBarrier == InitBarrier /\ [][NextBarrier]_vars

\* the callers executing the body of the wrapped function
InBody == {c \in Callers : pc[c] = "body"}
\* the callers inside the with-block, whose release() has not returned
Inside == {c \in Callers : pc[c] \in {"body", "exit", "exiting"}}

\* C7: at most one caller executes the body of the wrapped function at a time,
\* whichever lock recipe the barrier was given.
BarrierSerialized == Cardinality(InBody) <= 1

\* C10: each entry of a with-block is matched by one release that succeeded
\* once the block is left, on a normal return and on an error alike; the error of
\* the body reaches the caller unchanged; and with nobody inside, the next
\* acquire() succeeds.
ScopedRelease ==
    /\ [](/\ \A c \in Callers : holds[c] = IF c \in Inside THEN 1 ELSE 0
          /\ Inside = {} => \A c \in Callers : AcquireOnce(cache, self[c]).done)
    /\ [][\A c \in Callers :
            (pc[c] \in {"exit", "exiting"} /\ pc'[c] = "idle") =>
                outcome'[c] = exc[c]]_vars

\* a caller whose body raised has left the block, the error reached it, and
\* another caller has entered since
ScopedReleasedAfterError ==
    \E c, d \in Callers :
        /\ c # d
        /\ pc[c] = "idle" /\ outcome[c] = "Error"
        /\ pc[d] = "body"
        /\ Inside = {d}

(* ------------------------------ Averager -------------------------------- *)
\* Averager(cache, key, expire, tag)
AveragerObject(key, expire, tag) ==
    [cls |-> "Averager", key |-> key, expire |-> expire, tag |-> tag, value |-> 0]

\* the values passed to add(): numbers whose sums and quotients are exact
Values == {1, 3}

RECURSIVE GCD(_, _)
GCD(a, b) == IF b = 0 THEN a ELSE GCD(b, a % b)

\* the quotient n / d, d > 0, as a fraction in lowest terms
Quotient(n, d) == LET g == GCD(n, d) IN <<n \div g, d \div g>>
\* 0.0
Zero == <<0, 1>>

\* the default=(0.0, 0) of get and pop
AveragerDefault == <<0, 0>>

\* 0.0 if count == 0 else total / count
Average(pair) ==
    LET total == pair[1]
        count == pair[2]
    IN  IF count = 0 THEN Zero ELSE Quotient(total, count)

\* total, count = self._cache.get(self._key, default=(0.0, 0))
AveragerRead(store, obj) == Get(store, obj.key, AveragerDefault)

AveragerAddWithKeepCount(store, obj, got, value) ==
    Set(store, obj.key, <<got[1] + value, got[2]>>, obj.expire, obj.tag)

\* the rest of the transaction of add(value), having read `got`
AveragerAddWith(store, obj, got, value) ==
    LET total == got[1] + value
        count == got[2] + 1
    IN  Set(store, obj.key, <<total, count>>, obj.expire, obj.tag)

\* Averager.get: a single read
AveragerGetOp(store, obj) == Average(Get(store, obj.key, AveragerDefault))

AveragerPopOpKeepsKey(store, obj) ==
    [cache |-> store, ret |-> Average(Get(store, obj.key, AveragerDefault))]

\* Averager.pop: one atomic pop of the key
AveragerPopOp(store, obj) ==
    LET popped == Pop(store, obj.key, AveragerDefault)
    IN  [cache |-> popped.cache, ret |-> Average(popped.ret)]

Plus(p, q) == <<p[1] + q[1], p[2] + q[2]>>
AddsBegun == Cardinality({c \in Callers : pc[c] = "add"})

\* caller c calls add(v): it opens the transaction and reads the key
AveragerAdd(c, v) ==
    /\ pc[c] = "idle"
    /\ hist.added[2] + AddsBegun < MaxAdds
    /\ Transact(c)
    /\ local' = [local EXCEPT ![c] =
                    [got |-> AveragerRead(cache, self[c]), value |-> v]]
    /\ pc' = [pc EXCEPT ![c] = "add"]
    /\ UNCHANGED <<cache, self, holds, outcome, exc, result, clock, hist>>

\* add(v) writes the new total and count, leaves the transaction and returns
AveragerAddCommit(c) ==
    /\ pc[c] = "add"
    /\ cache' = AveragerAddWith(cache, self[c], local[c].got, local[c].value)
    /\ Commit(c)
    /\ hist' = [hist EXCEPT !.added = Plus(@, <<local[c].value, 1>>),
                            !.since = Plus(@, <<local[c].value, 1>>)]
    /\ pc' = [pc EXCEPT ![c] = "idle"]
    /\ local' = [local EXCEPT ![c] = None]
    /\ UNCHANGED <<self, holds, outcome, exc, result, clock>>

\* caller c calls get()
AveragerGet(c) ==
    /\ pc[c] = "idle"
    /\ result' = [result EXCEPT ![c] = AveragerGetOp(cache, self[c])]
    /\ UNCHANGED <<cache, txn, self, pc, local, holds, outcome, exc, clock, hist>>

\* caller c calls pop()
AveragerPop(c) ==
    /\ pc[c] = "idle"
    /\ CanWrite
    /\ LET r == AveragerPopOp(cache, self[c])
       IN  /\ cache' = r.cache
           /\ result' = [result EXCEPT ![c] = r.ret]
    /\ hist' = [hist EXCEPT !.popped = Plus(@, AveragerRead(cache, self[c])),
                            !.since = <<0, 0>>]
    /\ UNCHANGED <<txn, self, pc, local, holds, outcome, exc, clock>>

InitAverager ==
    /\ cache = EmptyCache
    /\ txn = NoCaller
    /\ \E o \in Options :
          self = [c \in AllCallers |-> AveragerObject(Key, o[1], o[2])]
    /\ pc = Idle
    /\ local = NoLocals
    /\ holds = NoHolds
    /\ outcome = NoErrors
    /\ exc = NoErrors
    /\ result = NoResults
    /\ clock = 0
    /\ hist = [added |-> <<0, 0>>, popped |-> <<0, 0>>, since |-> <<0, 0>>]

NextAverager ==
    \E c \in Callers :
        \/ \E v \in Values : AveragerAdd(c, v)
        \/ AveragerAddCommit(c)
        \/ AveragerGet(c)
        \/ AveragerPop(c)

SpecAverager == InitAverager /\ [][NextAverager]_vars

\* the stored (total, count), (0.0, 0) when the key is absent
StoredAverage == Get(cache, Key, AveragerDefault)
\* the mean of values of sum p[1] and number p[2]; 0.0 by convention of none
Mean(p) == IF p[2] = 0 THEN Zero ELSE Quotient(p[1], p[2])

\* C8: as long as no pop() has taken a value, the stored state is the sum and
\* the number of the values whose add() has returned, and get() returns their
\* mean, 0.0 when there is none.
AveragerNoLostUpdates ==
    /\ [](hist.popped = <<0, 0>> => StoredAverage = hist.added)
    /\ [][\A c \in Callers :
            (AveragerGet(c) /\ hist.popped = <<0, 0>>) =>
                result'[c] = Mean(hist.added)]_vars

\* three adds by different callers are in, and a get() has returned their mean
AveragerThreeAdded ==
    /\ hist.added = <<5, 3>>
    /\ hist.popped = <<0, 0>>
    /\ \E c \in Callers : result[c] = <<5, 3>>

\* C9: every value added is in exactly one of: the values popped so far, or the
\* stored state, which holds the values added since the last pop(); pop()
\* returns the mean of those, leaves the key absent, and a get() right after
\* returns 0.0.
AveragerPopAtomic ==
    /\ [](/\ hist.added = Plus(hist.popped, StoredAverage)
          /\ StoredAverage = hist.since)
    /\ [][\A c \in Callers :
            AveragerPop(c) =>
                /\ result'[c] = Mean(hist.since)
                /\ Key \notin DOMAIN cache'
                /\ AveragerGetOp(cache', self[c]) = Zero]_vars

\* a pop() took two values and returned their mean, and a third value has been
\* added since
AveragerPoppedThenAdded ==
    /\ hist.popped = <<4, 2>>
    /\ \E c \in Callers : result[c] = <<2, 1>>
    /\ hist.since = <<1, 1>>
    /\ StoredAverage = <<1, 1>>

(* ------------------------------ throttle -------------------------------- *)
\* Time is counted in ticks.  `seconds` is a number of ticks that `count`
\* divides, and a tally is kept in units of 1/seconds of a token, so that
\* rate * (now - last) = count * (now - last) units and every delay
\* (1 - tally) / rate is a whole number of ticks: the arithmetic is exact.
ThrottleCallers == 1..NThrottled
Times == 0..MaxTime

\* the (count, seconds) a function is throttled with
ThrottleParams == {<<1, 1>>, <<1, 2>>, <<2, 2>>}

\* the closure of decorator(func): count, seconds, key, expire, tag
ThrottleObject(count, seconds, key, expire, tag) ==
    [cls |-> "throttle", key |-> key, expire |-> expire, tag |-> tag,
     count |-> count, seconds |-> seconds]

\* a number of tokens as a tally
Tokens2Tally(n, obj) == n * obj.seconds

\* cache.set(key, (now, count), expire=expire, tag=tag, retry=True)
ThrottleDecorateOp(store, obj, now) ==
    Set(store, obj.key, <<now, Tokens2Tally(obj.count, obj)>>, obj.expire, obj.tag)

ThrottleWithNoCap(store, obj, got, now) ==
    LET last == got[1]
        tally == got[2] + (now - last) * obj.count
    IN  IF tally >= Tokens2Tally(1, obj)
        THEN [cache |-> Set(store, obj.key, <<now, tally - Tokens2Tally(1, obj)>>,
                            obj.expire, None),
              go |-> TRUE, tally |-> tally, delay |-> 0]
        ELSE [cache |-> store, go |-> FALSE, tally |-> tally,
              delay |-> (Tokens2Tally(1, obj) - tally) \div obj.count]

ThrottleWithShortDelay(store, obj, got, now) ==
    LET last == got[1]
        tally == got[2] + (now - last) * obj.count
    IN  IF tally > Tokens2Tally(obj.count, obj)
        THEN [cache |-> Set(store, obj.key, <<now, Tokens2Tally(obj.count - 1, obj)>>,
                            obj.expire, None),
              go |-> TRUE, tally |-> tally, delay |-> 0]
        ELSE IF tally >= Tokens2Tally(1, obj)
        THEN [cache |-> Set(store, obj.key, <<now, tally - Tokens2Tally(1, obj)>>,
                            obj.expire, None),
              go |-> TRUE, tally |-> tally, delay |-> 0]
        ELSE [cache |-> store, go |-> FALSE, tally |-> tally,
              delay |-> 1]

ThrottleWithCapFull(store, obj, got, now) ==
    LET last == got[1]
        tally == got[2] + (now - last) * obj.count
    IN  IF tally > Tokens2Tally(obj.count, obj)
        THEN [cache |-> Set(store, obj.key, <<now, Tokens2Tally(obj.count, obj)>>,
                            obj.expire, None),
              go |-> TRUE, tally |-> tally, delay |-> 0]
        ELSE IF tally >= Tokens2Tally(1, obj)
        THEN [cache |-> Set(store, obj.key, <<now, tally - Tokens2Tally(1, obj)>>,
                            obj.expire, None),
              go |-> TRUE, tally |-> tally, delay |-> 0]
        ELSE [cache |-> store, go |-> FALSE, tally |-> tally,
              delay |-> (Tokens2Tally(1, obj) - tally) \div obj.count]

\* the rest of the transaction of one pass of the wrapper's loop, having read
\* `got` = (last, tally) and `now`.  The wrapper's cache.set passes expire but
\* no tag.
ThrottleWith(store, obj, got, now) ==
    LET last == got[1]
        tally == got[2] + (now - last) * obj.count
    IN  IF tally > Tokens2Tally(obj.count, obj)
        THEN [cache |-> Set(store, obj.key, <<now, Tokens2Tally(obj.count - 1, obj)>>,
                            obj.expire, None),
              go |-> TRUE, tally |-> tally, delay |-> 0]
        ELSE IF tally >= Tokens2Tally(1, obj)
        THEN [cache |-> Set(store, obj.key, <<now, tally - Tokens2Tally(1, obj)>>,
                            obj.expire, None),
              go |-> TRUE, tally |-> tally, delay |-> 0]
        ELSE [cache |-> store, go |-> FALSE, tally |-> tally,
              delay |-> (Tokens2Tally(1, obj) - tally) \div obj.count]

Decorated == Key \in DOMAIN cache

\* the module is imported: decorator(func) runs once and fills the bucket
ThrottleDecorate ==
    /\ ~Decorated
    /\ CanWrite
    /\ cache' = ThrottleDecorateOp(cache, self[1], clock)
    /\ hist' = [hist EXCEPT !.decorated = clock]
    /\ UNCHANGED <<txn, self, pc, local, holds, outcome, exc, result, clock>>

\* caller c starts a pass of the loop of the wrapper (the first, on calling the
\* throttled function, or the next when sleep_func(delay) has returned): it
\* opens the transaction and reads the key
ThrottlePass(c) ==
    /\ Decorated
    /\ \/ pc[c] = "idle"
       \/ pc[c] = "sleep" /\ clock >= local[c].now + local[c].delay
    /\ Transact(c)
    /\ local' = [local EXCEPT ![c] = Get(cache, self[c].key, None)]
    /\ pc' = [pc EXCEPT ![c] = "pass"]
    /\ UNCHANGED <<cache, self, holds, outcome, exc, result, clock, hist>>

\* the pass ends: it reads the time, and a token is taken and the loop breaks,
\* or the transaction is left and the caller sleeps for `delay`
ThrottlePassCommit(c) ==
    /\ pc[c] = "pass"
    /\ LET r == ThrottleWith(cache, self[c], local[c], clock)
       IN  /\ cache' = r.cache
           /\ IF r.go
              THEN /\ pc' = [pc EXCEPT ![c] = "call"]
                   /\ local' = [local EXCEPT ![c] = None]
                   /\ hist' = [hist EXCEPT !.passed[clock] = @ + 1]
              ELSE /\ pc' = [pc EXCEPT ![c] = "sleep"]
                   /\ local' = [local EXCEPT ![c] =
                                   [last |-> local[c][1], tally |-> r.tally,
                                    now |-> clock, delay |-> r.delay]]
                   /\ UNCHANGED hist
    /\ Commit(c)
    /\ UNCHANGED <<self, holds, outcome, exc, result, clock>>

\* return func(*args, **kwargs)
ThrottleInvoke(c) ==
    /\ pc[c] = "call"
    /\ hist' = [hist EXCEPT !.invoked[clock] = @ + 1]
    /\ pc' = [pc EXCEPT ![c] = "idle"]
    /\ UNCHANGED <<cache, txn, self, local, holds, outcome, exc, result, clock>>

\* time passes
Tick ==
    /\ clock < MaxTime
    /\ clock' = clock + 1
    /\ UNCHANGED <<cache, txn, self, pc, local, holds, outcome, exc, result, hist>>

InitThrottle ==
    /\ cache = EmptyCache
    /\ txn = NoCaller
    /\ \E p \in ThrottleParams, o \in Options :
          self = [c \in AllCallers |-> ThrottleObject(p[1], p[2], Key, o[1], o[2])]
    /\ pc = Idle
    /\ local = NoLocals
    /\ holds = NoHolds
    /\ outcome = NoErrors
    /\ exc = NoErrors
    /\ result = NoResults
    /\ clock = 0
    /\ hist = [passed |-> [t \in Times |-> 0], invoked |-> [t \in Times |-> 0],
               decorated |-> None]

NextThrottle ==
    \/ ThrottleDecorate
    \/ Tick
    \/ \E c \in ThrottleCallers :
          \/ ThrottlePass(c)
          \/ ThrottlePassCommit(c)
          \/ ThrottleInvoke(c)

SpecThrottle == InitThrottle /\ [][NextThrottle]_vars

\* the instants of the window of length `seconds` that starts at s
Window(s) == {t \in Times : s <= t /\ t < s + self[1].seconds}
\* how many of the events counted by f fall in the window starting at s
InWindow(f, s) == SumOver(Window(s), f)

\* C6 as stated: in every window of length `seconds` at most `count`
\* invocations of the wrapped function occur.
ThrottleWindowLimit ==
    \A s \in Times : InWindow(hist.invoked, s) <= self[1].count

\* C6 as amended: in every window of length `seconds` at most 2 * count - 1
\* calls pass the throttle, a call passing at the time `now` its transaction
\* read; the wrapped function is invoked no earlier than that.
ThrottleWindowBound ==
    /\ \A s \in Times : InWindow(hist.passed, s) <= 2 * self[1].count - 1
    /\ \A t \in Times :
          SumOver(0..t, hist.invoked) <= SumOver(0..t, hist.passed)

\* with count = 2 a window holds three calls: two from the full bucket and one
\* from the token accrued meanwhile, and the function has been invoked for each
ThrottleBurst ==
    /\ self[1].count = 2
    /\ \E s \in Times : /\ InWindow(hist.passed, s) = 3
                        /\ InWindow(hist.invoked, s) = 3

(* -------------------------- expire and tag ------------------------------ *)
\* C15: the entry stored at the key, when present, carries the expire and the
\* tag the primitive was constructed with.
ExpireTagPassThrough ==
    Key \in DOMAIN cache =>
        /\ cache[Key].expire = self[1].expire
        /\ cache[Key].tag = self[1].tag

(* ------------------------- throttle, the tally -------------------------- *)
\* the stored (last_time, tally)
Bucket == cache[Key].value
\* the tally a transaction of the wrapper computes at the present time
Accrued == Bucket[2] + (clock - Bucket[1]) * self[1].count
Full == Tokens2Tally(self[1].count, self[1])
OneToken == Tokens2Tally(1, self[1])

\* C16: once decorated, 0 <= tally <= count between transactions; a pass that
\* finds the accrued tally above count stores (now, count - 1), one that finds
\* 1 <= tally <= count stores (now, tally - 1), one that finds less than 1
\* stores nothing.
ThrottleTallyBound ==
    /\ [](Decorated => 0 <= Bucket[2] /\ Bucket[2] <= Full)
    /\ [][\A c \in ThrottleCallers : ThrottlePassCommit(c) =>
            IF Accrued > Full
            THEN Bucket' = <<clock, Full - OneToken>>
            ELSE IF Accrued >= OneToken
            THEN Bucket' = <<clock, Accrued - OneToken>>
            ELSE cache' = cache]_vars

\* count = 1, seconds = 2: the bucket was emptied at time 0 and left alone for
\* three ticks, more than the two that fill it, and the call at time 3 has
\* stored count - 1 = 0
ThrottleCapped ==
    /\ self[1].count = 1 /\ self[1].seconds = 2
    /\ hist.passed = [t \in Times |-> IF t \in {0, 3} THEN 1 ELSE 0]
    /\ Bucket = <<3, 0>>

(* ---------------------- construction and first use ---------------------- *)
\* what can be constructed on a key
Primitives == {"Averager", "Lock", "RLock", "BoundedSemaphore", "throttle", "barrier"}

\* a caller that has constructed nothing yet
Unconstructed ==
    [cls |-> None, key |-> Key, expire |-> None, tag |-> None, value |-> 0]

\* the objects caller c can construct: Averager(...), Lock(...), RLock(...),
\* BoundedSemaphore(...), throttle(...)(func), barrier(cache, factory)(func)
Constructed(primitive, c, expire, tag) ==
    CASE primitive = "Averager" -> {AveragerObject(Key, expire, tag)}
      [] primitive = "Lock" -> {LockObject(Key, expire, tag)}
      [] primitive = "RLock" -> {RLockObject(Key, expire, tag, c)}
      [] primitive = "BoundedSemaphore" -> {SemObject(Key, SemValue, expire, tag)}
      [] primitive = "throttle" ->
            {ThrottleObject(p[1], p[2], Key, expire, tag) : p \in ThrottleParams}
      [] primitive = "barrier" ->
            {MakeLock(f, Key, expire, tag, c) : f \in LockFactories}

ConstructOpEager(store, obj, now) ==
    CASE obj.cls = "throttle" -> ThrottleDecorateOp(store, obj, now)
      [] obj.cls = "BoundedSemaphore" ->
            Set(store, obj.key, obj.value, obj.expire, obj.tag)
      [] OTHER -> store

\* what constructing does to the store: the __init__ methods and barrier's
\* decorator make no store call, throttle's decorator sets the key
ConstructOp(store, obj, now) ==
    IF obj.cls = "throttle"
    THEN ThrottleDecorateOp(store, obj, now)
    ELSE store

\* caller c constructs a primitive on the key, of the kind already in use on
\* that key if there is one
Construct(c, primitive) ==
    /\ self[c] = Unconstructed
    /\ CanWrite
    /\ \E o \in Options : \E obj \in Constructed(primitive, c, o[1], o[2]) :
          /\ \A d \in Callers : self[d] # Unconstructed =>
                /\ self[d].cls = obj.cls
                /\ self[d].expire = obj.expire /\ self[d].tag = obj.tag
                /\ obj.cls = "throttle" =>
                      self[d].count = obj.count /\ self[d].seconds = obj.seconds
          /\ self' = [self EXCEPT ![c] = obj]
          /\ cache' = ConstructOp(cache, obj, clock)
    /\ UNCHANGED <<txn, pc, local, holds, outcome, exc, result, clock, hist>>

\* one whole operation of the constructed primitive, in one step
UseOp(store, obj, op, now) ==
    CASE obj.cls = "Averager" /\ op = "first" ->
            AveragerAddWith(store, obj, AveragerRead(store, obj), 1)
      [] obj.cls = "Averager" /\ op = "second" -> AveragerPopOp(store, obj).cache
      [] obj.cls = "Lock" /\ op = "first" -> LockAcquireOnce(store, obj).cache
      [] obj.cls = "Lock" /\ op = "second" -> LockReleaseOp(store, obj).cache
      [] obj.cls = "RLock" /\ op = "first" -> RLockAcquireOnce(store, obj).cache
      [] obj.cls = "RLock" /\ op = "second" -> RLockReleaseOp(store, obj).cache
      [] obj.cls = "BoundedSemaphore" /\ op = "first" ->
            SemAcquireOnce(store, obj).cache
      [] obj.cls = "BoundedSemaphore" /\ op = "second" ->
            SemReleaseOp(store, obj).cache
      [] obj.cls = "throttle" ->
            ThrottleWith(store, obj, Get(store, obj.key, None), now).cache

\* caller c runs add() or a pass of acquire() or of the throttled wrapper
\* ("first"), or pop() or release() ("second")
Use(c, op) ==
    /\ self[c] # Unconstructed
    /\ CanWrite
    /\ self[c].cls = "throttle" => op = "first"
    /\ self[c].cls = "Averager" /\ op = "first" =>
          AveragerRead(cache, self[c])[2] < MaxAdds
    /\ self[c].cls = "RLock" /\ op = "first" =>
          RLockRead(cache, self[c])[2] < MaxDepth
    /\ cache' = UseOp(cache, self[c], op, clock)
    /\ UNCHANGED <<txn, self, pc, local, holds, outcome, exc, result, clock, hist>>

InitLazy ==
    /\ cache = EmptyCache
    /\ txn = NoCaller
    /\ self = [c \in AllCallers |-> Unconstructed]
    /\ pc = Idle
    /\ local = NoLocals
    /\ holds = NoHolds
    /\ outcome = NoErrors
    /\ exc = NoErrors
    /\ result = NoResults
    /\ clock = 0
    /\ hist = NoHistory

NextLazy ==
    \/ Tick
    \/ \E c \in Callers :
          \/ \E primitive \in Primitives : Construct(c, primitive)
          \/ Use(c, "first")
          \/ Use(c, "second")

SpecLazy == InitLazy /\ [][NextLazy]_vars

\* C17 as stated: constructing a primitive, decorating with throttle or
\* barrier included, leaves the store as it was.
ConstructionLeavesStore ==
    [][\A c \in Callers, primitive \in Primitives :
          Construct(c, primitive) => cache' = cache]_vars

\* C17 as amended: constructing an Averager, a Lock, an RLock or a
\* BoundedSemaphore, or decorating with barrier, leaves the store as it was,
\* and the key is then first written by the first add() or acquire();
\* decorating with throttle writes (now, count) to the key at once; the
\* store changes only in the primitive's operations and throttle's decorator.
LazyExceptThrottle ==
    /\ [][\A c \in Callers, primitive \in Primitives :
            Construct(c, primitive) =>
                IF primitive = "throttle"
                THEN /\ Key \in DOMAIN cache'
                     /\ cache'[Key].value =
                            <<clock, Tokens2Tally(self'[c].count, self'[c])>>
                ELSE cache' = cache]_vars
    /\ [][Key \notin DOMAIN cache /\ Key \in DOMAIN cache' =>
            \E c \in Callers : \/ Use(c, "first")
                               \/ Construct(c, "throttle")]_vars
    /\ [][cache' # cache =>
            \E c \in Callers : \/ Use(c, "first")
                               \/ Use(c, "second")
                               \/ Construct(c, "throttle")]_vars
    /\ [](Key \in DOMAIN cache =>
            \E c \in Callers : self[c] # Unconstructed)

\* every caller has constructed a semaphore and the key is still absent
LazyStillAbsent ==
    /\ \A c \in Callers : self[c].cls = "BoundedSemaphore"
    /\ Key \notin DOMAIN cache

(* ----------------------- throttle, one call at a time -------------------- *)
Min(a, b) == IF a <= b THEN a ELSE b
Invocations == SumOver(Times, hist.invoked)
\* the (last, tally) caller c read in the pass that sent it to sleep, and the
\* time at which sleep_func(delay) returns at the earliest
Seen(c) ==
    <<local[c].last,
      local[c].tally - (local[c].now - local[c].last) * self[c].count>>
WakeTime(c) == local[c].now + local[c].delay

\* C18: a pass of the wrapper's loop that exits makes one write, of
\* (now, tally - 1) with the tally capped at count, and a pass that ends in a
\* sleep makes none; nothing else in a call writes; a call reaches the wrapped
\* function only from such a write and invokes it once; and when the sleep is
\* over and no other caller has touched the bucket, the next pass exits.
ThrottleOneToken ==
    /\ [][\A c \in ThrottleCallers : ThrottlePassCommit(c) =>
            IF pc'[c] = "call"
            THEN /\ Bucket' = <<clock, Min(Accrued, Full) - OneToken>>
                 /\ cache' # cache
            ELSE /\ pc'[c] = "sleep"
                 /\ cache' = cache]_vars
    /\ [][\A c \in ThrottleCallers :
            ThrottlePass(c) \/ ThrottleInvoke(c) => cache' = cache]_vars
    /\ [][\A c \in ThrottleCallers :
            /\ pc'[c] = "call" /\ pc[c] # "call" => ThrottlePassCommit(c)
            /\ pc[c] = "call" /\ pc'[c] # "call" =>
                  /\ pc'[c] = "idle"
                  /\ hist'.invoked = [hist.invoked EXCEPT ![clock] = @ + 1]]_vars
    /\ [][hist'.invoked # hist.invoked =>
            \E c \in ThrottleCallers : pc[c] = "call" /\ pc'[c] = "idle"]_vars
    /\ [](\A c \in ThrottleCallers :
            pc[c] = "sleep" /\ clock >= WakeTime(c) /\ Bucket = Seen(c) =>
                ThrottleWith(cache, self[c], Bucket, clock).go)

\* after one invocation a second call found no token, wrote nothing and
\* slept for two ticks, which have passed
ThrottleSleepOver ==
    \E c \in ThrottleCallers :
        /\ pc[c] = "sleep"
        /\ local[c].delay = 2
        /\ clock = WakeTime(c)
        /\ Bucket = Seen(c)
        /\ Invocations = 1

(* ---------------------- throttle, the token bucket ---------------------- *)
\* calls let through, and invocations begun, up to time t
PassedBy(t) == SumOver(0..t, hist.passed)
InvokedBy(t) == SumOver(0..t, hist.invoked)
\* the tokens there have been by time t: the full bucket of the decoration at
\* t0 and count / seconds for each unit of time since (as a tally)
TokensBy(t) == Full + self[1].count * (t - hist.decorated)

\* C19: at any time t (the present time of any reachable state) the wrapped
\* function has been invoked at most count + (count / seconds) * (t - t0)
\* times, each invocation after a call was let through; and every call let
\* through took a token of its own: the tokens taken and the tally left never
\* exceed the tokens there have been.
ThrottleBucketBound ==
    Decorated =>
        /\ InvokedBy(clock) <= PassedBy(clock)
        /\ OneToken * PassedBy(clock) <= TokensBy(clock)
        /\ OneToken * PassedBy(clock) + Bucket[2] <= TokensBy(Bucket[1])

\* count = 2, seconds = 2, decorated at time 1: three callers' worth of calls
\* by time 2, the bound exactly, all invoked, and the bucket empty
ThrottleBucketDrained ==
    /\ self[1].count = 2
    /\ Decorated
    /\ hist.decorated = 1
    /\ clock = 2
    /\ InvokedBy(2) = 3
    /\ Bucket = <<2, 0>>

====
